---- MODULE Spec2Model ----
(***************************************************************************)
(* A model of pyprops: propositional formula trees (src/pyprops.py), their *)
(* evaluation, structural negation and normal forms.                       *)
(*                                                                         *)
(* A formula object is a record                                            *)
(*   [id, type, name, subs, coll]                                          *)
(* id   : the object's identity (Python objects of class Formula define    *)
(*        neither __eq__ nor __hash__, so == and set membership go by      *)
(*        identity); a sequence of naturals, unique per constructed object *)
(* type : VAR, NOT, AND, OR, IMPLIES, IFF                                  *)
(* name : the variable name of a PropVar, "" otherwise                     *)
(* subs : the operands in iteration order (NOT: <<subformula>>,            *)
(*        IMPLIES: <<hyp, concl>>, IFF: <<sub1, sub2>>)                    *)
(* coll : "list" or "set" for the container an And/Or keeps its operands   *)
(*        in, "none" for the other kinds                                   *)
(*                                                                         *)
(* A Python str holding a formula expression is a sequence of lexemes:     *)
(* "(", ")", " " (one whitespace character) and words (maximal runs of    *)
(* other characters, e.g. "AND", "p"). The parser (src/pyprops_parser.py)  *)
(* reads such a sequence lexeme by lexeme as the code reads characters,    *)
(* and to_text writes one.                                                 *)
(***************************************************************************)
EXTENDS Integers, Sequences, FiniteSets, TLC

VARIABLES f, depth, nobj, res, text

vars == <<f, depth, nobj, res, text>>

(* ---------------------------------------------------------------- bounds *)
MaxDepth == 4

MaxPieces == 5

GenDepth == 2

GenLength == 3

(* ------------------------------------------------------------- constants *)
VAR == 0

NOT == 1

AND == 2

OR == 3

IMPLIES == 4

IFF == 5

Vars == {"p", "q"}

(* ------------------------------------------------------------ constructors *)
NoNode == [id |-> <<>>, type |-> IFF + 1, name |-> "", subs |-> <<>>, coll |-> "none"]

PropVar(id, name) ==
  [id |-> id, type |-> VAR, name |-> name, subs |-> <<>>, coll |-> "none"]

NotFormula(id, subformula) ==
  [id |-> id, type |-> NOT, name |-> "", subs |-> <<subformula>>, coll |-> "none"]

ImpliesFormula(id, hypothesis, conclusion) ==
  [id |-> id, type |-> IMPLIES, name |-> "", subs |-> <<hypothesis, conclusion>>,
   coll |-> "none"]

IffFormula(id, sub1, sub2) ==
  [id |-> id, type |-> IFF, name |-> "", subs |-> <<sub1, sub2>>, coll |-> "none"]

(* AndFormula.__init__ / OrFormula.__init__ raise ValueError on an empty   *)
(* operand container; the result is then NoNode and the caller reports the *)
(* error.                                                                  *)
AndFormula(id, subformulas, coll) ==
  IF Len(subformulas) = 0 THEN NoNode
  ELSE [id |-> id, type |-> AND, name |-> "", subs |-> subformulas, coll |-> coll]

OrFormula(id, subformulas, coll) ==
  IF Len(subformulas) = 0 THEN NoNode
  ELSE [id |-> id, type |-> OR, name |-> "", subs |-> subformulas, coll |-> coll]

Raised(n) == n.type = NoNode.type

(* ------------------------------------------------- Python sets of objects *)
(* A set of Formula objects holds each object once (identity) and iterates *)
(* in an order fixed by the objects' hashes (addresses), which the program *)
(* does not control: h selects the order (a Lehmer code). The sets this    *)
(* program builds of formula objects and of variable names hold at most    *)
(* two elements here, so the two values of Hashes give every order.        *)
Hashes == {0, 1}

(* A faulty DedupById: objects taken for equal when their kinds agree.    *)
RECURSIVE DedupById_mut(_)
DedupById_mut(s) ==
  IF Len(s) = 0 THEN <<>>
  ELSE LET init == DedupById_mut(SubSeq(s, 1, Len(s) - 1))
           last == s[Len(s)]
       IN IF \E i \in 1..Len(init) : init[i].type = last.type THEN init
          ELSE Append(init, last)

RECURSIVE DedupById(_)
DedupById(s) ==
  IF Len(s) = 0 THEN <<>>
  ELSE LET init == DedupById(SubSeq(s, 1, Len(s) - 1))
           last == s[Len(s)]
       IN IF \E i \in 1..Len(init) : init[i].id = last.id THEN init
          ELSE Append(init, last)

RemoveAt(s, k) == SubSeq(s, 1, k - 1) \o SubSeq(s, k + 1, Len(s))

RECURSIVE HashOrder(_, _)
HashOrder(s, h) ==
  IF Len(s) = 0 THEN <<>>
  ELSE LET k == (h % Len(s)) + 1
       IN <<s[k]>> \o HashOrder(RemoveAt(s, k), h \div Len(s))

SetOf(s, h) == HashOrder(DedupById(s), h)

(* A set of variable names (strings): one element per name.                *)
RECURSIVE SeqOfNames(_)
SeqOfNames(S) ==
  IF S = {} THEN <<>>
  ELSE LET x == CHOOSE y \in S : TRUE
       IN <<x>> \o SeqOfNames(S \ {x})

(* ----------------------------------------------------------- evaluation *)
(* A truth assignment is [keys, trues]: the dict's keys and those bound to *)
(* True. An evaluation result is [err, val]: err when ValueError('truth    *)
(* assignment missing variable') was raised.                               *)
Assignments == {[keys |-> K, trues |-> T] : K \in SUBSET Vars, T \in SUBSET Vars}
                 \cap {a \in [keys : SUBSET Vars, trues : SUBSET Vars] : a.trues \subseteq a.keys}

Ok(b) == [err |-> FALSE, val |-> b]

Err == [err |-> TRUE, val |-> FALSE]

RECURSIVE evaluate(_, _)
evaluate(fm, a) ==
  IF fm.type = VAR THEN
    IF fm.name \notin a.keys THEN Err ELSE Ok(fm.name \in a.trues)
  ELSE IF fm.type = NOT THEN
    LET r == evaluate(fm.subs[1], a) IN IF r.err THEN Err ELSE Ok(~r.val)
  ELSE IF fm.type = AND THEN
    LET rs == [i \in 1..Len(fm.subs) |-> evaluate(fm.subs[i], a)]
    IN IF \E i \in 1..Len(rs) : rs[i].err THEN Err
       ELSE Ok(\A i \in 1..Len(rs) : rs[i].val)
  ELSE IF fm.type = OR THEN
    LET rs == [i \in 1..Len(fm.subs) |-> evaluate(fm.subs[i], a)]
    IN IF \E i \in 1..Len(rs) : rs[i].err THEN Err
       ELSE Ok(\E i \in 1..Len(rs) : rs[i].val)
  ELSE IF fm.type = IMPLIES THEN
    LET rh == evaluate(fm.subs[1], a)
    IN IF rh.err THEN Err
       ELSE IF ~rh.val THEN Ok(TRUE)
       ELSE evaluate(fm.subs[2], a)
  ELSE
    LET r1 == evaluate(fm.subs[1], a)
        r2 == evaluate(fm.subs[2], a)
    IN IF r1.err \/ r2.err THEN Err ELSE Ok(r1.val = r2.val)

RECURSIVE get_variables(_)
get_variables(fm) ==
  IF fm.type = VAR THEN {fm.name}
  ELSE UNION {get_variables(fm.subs[i]) : i \in 1..Len(fm.subs)}

(* ---------------------------------------------------------- negation *)
(* A faulty negation: that of IMPLIES negates the hypothesis as well.    *)
RECURSIVE negation_mut(_, _, _)
negation_mut(fm, ctx, h) ==
  IF fm.type = VAR THEN NotFormula(ctx, fm)
  ELSE IF fm.type = NOT THEN fm.subs[1]
  ELSE IF fm.type = AND THEN
    OrFormula(ctx, SetOf([i \in 1..Len(fm.subs) |->
                            negation_mut(fm.subs[i], ctx \o <<i>>, h)], h), "set")
  ELSE IF fm.type = OR THEN
    AndFormula(ctx, SetOf([i \in 1..Len(fm.subs) |->
                             negation_mut(fm.subs[i], ctx \o <<i>>, h)], h), "set")
  ELSE IF fm.type = IMPLIES THEN
    AndFormula(ctx, SetOf(<<negation_mut(fm.subs[1], ctx \o <<2>>, h),
                            negation_mut(fm.subs[2], ctx \o <<1>>, h)>>, h), "set")
  ELSE
    LET f1 == AndFormula(ctx \o <<1>>,
                SetOf(<<fm.subs[1], negation_mut(fm.subs[2], ctx \o <<3>>, h)>>, h),
                "set")
        f2 == AndFormula(ctx \o <<2>>,
                SetOf(<<negation_mut(fm.subs[1], ctx \o <<4>>, h), fm.subs[2]>>, h),
                "set")
    IN OrFormula(ctx, SetOf(<<f1, f2>>, h), "set")

RECURSIVE negation(_, _, _)
negation(fm, ctx, h) ==
  IF fm.type = VAR THEN NotFormula(ctx, fm)
  ELSE IF fm.type = NOT THEN fm.subs[1]
  ELSE IF fm.type = AND THEN
    OrFormula(ctx, SetOf([i \in 1..Len(fm.subs) |->
                            negation(fm.subs[i], ctx \o <<i>>, h)], h), "set")
  ELSE IF fm.type = OR THEN
    AndFormula(ctx, SetOf([i \in 1..Len(fm.subs) |->
                             negation(fm.subs[i], ctx \o <<i>>, h)], h), "set")
  ELSE IF fm.type = IMPLIES THEN
    AndFormula(ctx, SetOf(<<fm.subs[1], negation(fm.subs[2], ctx \o <<1>>, h)>>, h),
               "set")
  ELSE
    LET f1 == AndFormula(ctx \o <<1>>,
                SetOf(<<fm.subs[1], negation(fm.subs[2], ctx \o <<3>>, h)>>, h), "set")
        f2 == AndFormula(ctx \o <<2>>,
                SetOf(<<negation(fm.subs[1], ctx \o <<4>>, h), fm.subs[2]>>, h), "set")
    IN OrFormula(ctx, SetOf(<<f1, f2>>, h), "set")

(* ------------------------------------------------------------- to_nnf *)
(* NotFormula._count_nots: the number of stacked NOTs and the first       *)
(* descendant that is not a NOT.                                          *)
(* A faulty _count_nots: the stacked NOTs are not counted.               *)
RECURSIVE count_nots_mut(_)
count_nots_mut(fm) ==
  IF fm.subs[1].type # NOT THEN [n |-> 1, base |-> fm.subs[1]]
  ELSE LET prev == count_nots_mut(fm.subs[1])
       IN [n |-> prev.n, base |-> prev.base]

RECURSIVE count_nots(_)
count_nots(fm) ==
  IF fm.subs[1].type # NOT THEN [n |-> 1, base |-> fm.subs[1]]
  ELSE LET prev == count_nots(fm.subs[1])
       IN [n |-> prev.n + 1, base |-> prev.base]

RECURSIVE to_nnf(_, _, _)
(* A faulty NotFormula.to_nnf: an odd number of NOTs above IMPLIES or    *)
(* IFF is left as one NOT.                                               *)
NotFormula_to_nnf_mut(fm, ctx, h) ==
  LET r == count_nots(fm)
  IN IF r.n % 2 = 0 THEN to_nnf(r.base, ctx, h)
     ELSE IF r.base.type = VAR THEN NotFormula(ctx, r.base)
     ELSE IF r.base.type = AND THEN
       OrFormula(ctx, [i \in 1..Len(r.base.subs) |->
                  to_nnf(negation(r.base.subs[i], ctx \o <<i, 1>>, h),
                         ctx \o <<i, 2>>, h)], "list")
     ELSE IF r.base.type = OR THEN
       AndFormula(ctx, [i \in 1..Len(r.base.subs) |->
                   to_nnf(negation(r.base.subs[i], ctx \o <<i, 1>>, h),
                          ctx \o <<i, 2>>, h)], "list")
     ELSE NotFormula(ctx, to_nnf(r.base, ctx \o <<1>>, h))

NotFormula_to_nnf(fm, ctx, h) ==
  LET r == count_nots(fm)
  IN IF r.n % 2 = 0 THEN to_nnf(r.base, ctx, h)
     ELSE IF r.base.type = VAR THEN NotFormula(ctx, r.base)
     ELSE IF r.base.type = AND THEN
       OrFormula(ctx, [i \in 1..Len(r.base.subs) |->
                  to_nnf(negation(r.base.subs[i], ctx \o <<i, 1>>, h),
                         ctx \o <<i, 2>>, h)], "list")
     ELSE IF r.base.type = OR THEN
       AndFormula(ctx, [i \in 1..Len(r.base.subs) |->
                   to_nnf(negation(r.base.subs[i], ctx \o <<i, 1>>, h),
                          ctx \o <<i, 2>>, h)], "list")
     ELSE to_nnf(negation(r.base, ctx \o <<1>>, h), ctx \o <<2>>, h)

to_nnf(fm, ctx, h) ==
  IF fm.type = VAR THEN fm
  ELSE IF fm.type = NOT THEN NotFormula_to_nnf(fm, ctx, h)
  ELSE IF fm.type = AND THEN
    AndFormula(ctx, SetOf([i \in 1..Len(fm.subs) |->
                             to_nnf(fm.subs[i], ctx \o <<i>>, h)], h), "set")
  ELSE IF fm.type = OR THEN
    OrFormula(ctx, SetOf([i \in 1..Len(fm.subs) |->
                            to_nnf(fm.subs[i], ctx \o <<i>>, h)], h), "set")
  ELSE IF fm.type = IMPLIES THEN
    ImpliesFormula(ctx, to_nnf(fm.subs[1], ctx \o <<1>>, h),
                   to_nnf(fm.subs[2], ctx \o <<2>>, h))
  ELSE
    IffFormula(ctx, to_nnf(fm.subs[1], ctx \o <<1>>, h),
               to_nnf(fm.subs[2], ctx \o <<2>>, h))

(* ------------------------------------------------- semantic analysis *)
(* Formula.generate_truth_assignments: the loop over the set of variable *)
(* names; every dict it returns lists its keys in that iteration order.  *)
(* A faulty GenLoop: i2[v] = False is left out, so i2 stays a copy of i. *)
RECURSIVE GenLoop_mut(_, _, _)
GenLoop_mut(vs, i, ret) ==
  IF i > Len(vs) THEN ret
  ELSE IF Len(ret) = 0 THEN
    GenLoop_mut(vs, i + 1,
                << [keys |-> {vs[i]}, trues |-> {vs[i]}, order |-> <<vs[i]>>],
                   [keys |-> {vs[i]}, trues |-> {}, order |-> <<vs[i]>>] >>)
  ELSE
    GenLoop_mut(vs, i + 1,
                [k \in 1..(2 * Len(ret)) |->
                   LET old == ret[(k + 1) \div 2]
                   IN IF k % 2 = 1
                      THEN [keys |-> old.keys \cup {vs[i]},
                            trues |-> old.trues \cup {vs[i]},
                            order |-> Append(old.order, vs[i])]
                      ELSE old])

RECURSIVE GenLoop(_, _, _)
GenLoop(vs, i, ret) ==
  IF i > Len(vs) THEN ret
  ELSE IF Len(ret) = 0 THEN
    GenLoop(vs, i + 1,
            << [keys |-> {vs[i]}, trues |-> {vs[i]}, order |-> <<vs[i]>>],
               [keys |-> {vs[i]}, trues |-> {}, order |-> <<vs[i]>>] >>)
  ELSE
    GenLoop(vs, i + 1,
            [k \in 1..(2 * Len(ret)) |->
               LET old == ret[(k + 1) \div 2]
               IN [keys |-> old.keys \cup {vs[i]},
                   trues |-> IF k % 2 = 1 THEN old.trues \cup {vs[i]} ELSE old.trues,
                   order |-> Append(old.order, vs[i])]])

generate_truth_assignments(fm, h) ==
  GenLoop(HashOrder(SeqOfNames(get_variables(fm)), h), 1, <<>>)

truth_table(fm, h) ==
  LET tas == generate_truth_assignments(fm, h)
  IN [i \in 1..Len(tas) |-> [asg |-> tas[i], r |-> evaluate(fm, tas[i])]]

is_tautology(fm, h) ==
  LET tt == truth_table(fm, h)
  IN IF \E i \in 1..Len(tt) : tt[i].r.err THEN Err
     ELSE Ok(\A i \in 1..Len(tt) : tt[i].r.val)

is_satisfiable(fm, h) ==
  LET tt == truth_table(fm, h)
  IN IF \E i \in 1..Len(tt) : tt[i].r.err THEN Err
     ELSE Ok(\E i \in 1..Len(tt) : tt[i].r.val)

is_fallacy(fm, h) ==
  LET r == is_satisfiable(fm, h) IN IF r.err THEN Err ELSE Ok(~r.val)

equivalent(f1, f2, ctx, h) == is_tautology(IffFormula(ctx, f1, f2), h)

(* ---------------------------------------------------- to_cnf / to_dnf *)
(* The literal of variable order[k] in a clause; pos tells whether the   *)
(* bare variable (not its negation) is used.                             *)
Literal(ctx, v, pos) ==
  IF pos THEN PropVar(ctx, v) ELSE NotFormula(ctx, PropVar(ctx \o <<1>>, v))

to_cnf(formula, ctx, h) ==
  LET tt == truth_table(formula, h)
      falses == SelectSeq(tt, LAMBDA row : ~row.r.val)
      formulas == [j \in 1..Len(falses) |->
                     OrFormula(ctx \o <<j>>,
                       [k \in 1..Len(falses[j].asg.order) |->
                          LET v == falses[j].asg.order[k]
                          IN Literal(ctx \o <<j, k>>, v, v \notin falses[j].asg.trues)],
                       "list")]
  IN AndFormula(ctx, formulas, "list")

to_dnf(formula, ctx, h) ==
  LET tt == truth_table(formula, h)
      trues == SelectSeq(tt, LAMBDA row : row.r.val)
      formulas == [j \in 1..Len(trues) |->
                     AndFormula(ctx \o <<j>>,
                       [k \in 1..Len(trues[j].asg.order) |->
                          LET v == trues[j].asg.order[k]
                          IN Literal(ctx \o <<j, k>>, v, v \in trues[j].asg.trues)],
                       "list")]
  IN OrFormula(ctx, formulas, "list")

(* -------------------------------------------------------------- to_text *)
RECURSIVE to_text(_)
Operand(fm) ==
  IF fm.type = NOT \/ fm.type = VAR THEN to_text(fm)
  ELSE <<"(">> \o to_text(fm) \o <<")">>

RECURSIVE Join(_, _)
Join(texts, sep) ==
  IF Len(texts) = 0 THEN <<>>
  ELSE IF Len(texts) = 1 THEN texts[1]
  ELSE texts[1] \o sep \o Join(Tail(texts), sep)

(* A faulty to_text: the operand of a NOT is written without parentheses. *)
to_text_mut(fm) ==
  IF fm.type = VAR THEN <<fm.name>>
  ELSE IF fm.type = NOT THEN <<"NOT", " ">> \o to_text(fm.subs[1])
  ELSE IF fm.type = AND THEN
    Join([i \in 1..Len(fm.subs) |-> Operand(fm.subs[i])], <<" ", "AND", " ">>)
  ELSE IF fm.type = OR THEN
    Join([i \in 1..Len(fm.subs) |-> Operand(fm.subs[i])], <<" ", "OR", " ">>)
  ELSE IF fm.type = IMPLIES THEN
    Operand(fm.subs[1]) \o <<" ", "IMPLIES", " ">> \o Operand(fm.subs[2])
  ELSE Operand(fm.subs[1]) \o <<" ", "IFF", " ">> \o Operand(fm.subs[2])

to_text(fm) ==
  IF fm.type = VAR THEN <<fm.name>>
  ELSE IF fm.type = NOT THEN <<"NOT", "(">> \o to_text(fm.subs[1]) \o <<")">>
  ELSE IF fm.type = AND THEN
    Join([i \in 1..Len(fm.subs) |-> Operand(fm.subs[i])], <<" ", "AND", " ">>)
  ELSE IF fm.type = OR THEN
    Join([i \in 1..Len(fm.subs) |-> Operand(fm.subs[i])], <<" ", "OR", " ">>)
  ELSE IF fm.type = IMPLIES THEN
    Operand(fm.subs[1]) \o <<" ", "IMPLIES", " ">> \o Operand(fm.subs[2])
  ELSE Operand(fm.subs[1]) \o <<" ", "IFF", " ">> \o Operand(fm.subs[2])

(* Formula defines no __eq__: x == y is object identity.                 *)
FormulaEq(x, y) == x.id = y.id

(* The same expression constructed a second time: equal kinds, names and *)
(* operand order, new objects.                                           *)
RECURSIVE Rebuild(_, _)
Rebuild(fm, ctx) ==
  [fm EXCEPT !.id = ctx,
             !.subs = [i \in 1..Len(fm.subs) |-> Rebuild(fm.subs[i], ctx \o <<i>>)]]

(* ------------------------------------------------- src/pyprops_parser.py *)
conns == {"AND", "OR", "IMPLIES", "IFF"}

(* An entry of the nested list _to_nested_lists returns: a str or a list. *)
Str(s) == [isstr |-> TRUE, s |-> s, l |-> <<>>]

List(l) == [isstr |-> FALSE, s |-> <<>>, l |-> l]

(* What a parser function hands back: err is "" and the value is in node, *)
(* conn, lst, idx, or err is the class of the exception it raised.        *)
Fail(kind) == [err |-> kind, node |-> NoNode, conn |-> "", lst |-> <<>>, idx |-> 0]

Value(node, conn) == [err |-> "", node |-> node, conn |-> conn, lst |-> <<>>, idx |-> 0]

(* str.strip() *)
RECURSIVE lstrip(_)
lstrip(s) == IF Len(s) > 0 /\ s[1] = " " THEN lstrip(Tail(s)) ELSE s

RECURSIVE rstrip(_)
rstrip(s) == IF Len(s) > 0 /\ s[Len(s)] = " " THEN rstrip(SubSeq(s, 1, Len(s) - 1)) ELSE s

strip(s) == rstrip(lstrip(s))

(* str.split(): the words between runs of whitespace. Lexemes that are not *)
(* whitespace and follow each other are the characters of one word.        *)
RECURSIVE SplitLoop(_, _, _)
SplitLoop(s, word, ret) ==
  IF Len(s) = 0 THEN (IF word = "" THEN ret ELSE Append(ret, word))
  ELSE IF s[1] = " " THEN
    SplitLoop(Tail(s), "", IF word = "" THEN ret ELSE Append(ret, word))
  ELSE SplitLoop(Tail(s), word \o s[1], ret)

split(s) == SplitLoop(s, "", <<>>)

(* A faulty _formula_builder: hypothesis and conclusion of an IMPLIES are *)
(* taken in the wrong order.                                              *)
_formula_builder_mut(subs, connective, ctx) ==
  IF Len(subs) = 0 THEN Fail("ValueError")
  ELSE IF connective = "" /\ Len(subs) = 1 THEN Value(subs[Len(subs)], connective)
  ELSE IF connective = "AND" THEN Value(AndFormula(ctx, subs, "list"), connective)
  ELSE IF connective = "OR" THEN Value(OrFormula(ctx, subs, "list"), connective)
  ELSE IF connective = "IMPLIES" THEN
    IF Len(subs) # 2 THEN Fail("ValueError")
    ELSE Value(ImpliesFormula(ctx, subs[2], subs[1]), connective)
  ELSE IF connective = "IFF" THEN
    IF Len(subs) # 2 THEN Fail("ValueError")
    ELSE Value(IffFormula(ctx, subs[1], subs[2]), connective)
  ELSE Fail("ValueError")

_formula_builder(subs, connective, ctx) ==
  IF Len(subs) = 0 THEN Fail("ValueError")
  ELSE IF connective = "" /\ Len(subs) = 1 THEN Value(subs[Len(subs)], connective)
  ELSE IF connective = "AND" THEN Value(AndFormula(ctx, subs, "list"), connective)
  ELSE IF connective = "OR" THEN Value(OrFormula(ctx, subs, "list"), connective)
  ELSE IF connective = "IMPLIES" THEN
    IF Len(subs) # 2 THEN Fail("ValueError")
    ELSE Value(ImpliesFormula(ctx, subs[1], subs[2]), connective)
  ELSE IF connective = "IFF" THEN
    IF Len(subs) # 2 THEN Fail("ValueError")
    ELSE Value(IffFormula(ctx, subs[1], subs[2]), connective)
  ELSE Fail("ValueError")

(* The for loop of _parse_helper; i counts from 1, cur is the segment of  *)
(* the previous round.                                                    *)
RECURSIVE HelperLoop(_, _, _, _, _, _)
HelperLoop(segments, i, subs, connective, prev, ctx) ==
  IF i > Len(segments) THEN _formula_builder(subs, connective, ctx)
  ELSE
    LET cur == segments[i]
    IN IF prev # "" /\ ((prev \in conns) = (cur \in conns)) THEN Fail("ValueError")
       ELSE IF cur \in conns THEN
         IF connective = "" THEN HelperLoop(segments, i + 1, subs, cur, cur, ctx)
         ELSE IF connective # cur THEN Fail("ValueError")
         ELSE HelperLoop(segments, i + 1, subs, connective, cur, ctx)
       ELSE HelperLoop(segments, i + 1, Append(subs, PropVar(ctx \o <<i>>, cur)),
                       connective, cur, ctx)

_parse_helper(segments, ctx) ==
  IF \E i \in 1..Len(segments) : segments[i] = "NOT" THEN Fail("ValueError")
  ELSE IF \/ Len(segments) = 0
          \/ segments[1] \in conns
          \/ segments[Len(segments)] \in conns THEN Fail("ValueError")
  ELSE HelperLoop(segments, 1, <<>>, "", "", ctx)

(* The second loop of _to_nested_lists: strings are stripped and dropped  *)
(* when nothing is left of them.                                          *)
Stripped(lst) ==
  LET kept == SelectSeq(lst, LAMBDA e : ~e.isstr \/ Len(strip(e.s)) > 0)
  IN [i \in 1..Len(kept) |-> IF kept[i].isstr THEN Str(strip(kept[i].s)) ELSE kept[i]]

(* lst[-1] += c, after lst.append('') when lst is empty or ends in a list *)
AddChar(lst, c) ==
  IF Len(lst) = 0 \/ ~lst[Len(lst)].isstr THEN Append(lst, Str(<<c>>))
  ELSE [lst EXCEPT ![Len(lst)] = Str(lst[Len(lst)].s \o <<c>>)]

(* _to_nested_lists(text, cur_index): idx is cur_index[0] + 1, the        *)
(* position of the next lexeme; the result carries the index the call     *)
(* leaves in cur_index. ScanLoop is the while loop.                       *)
RECURSIVE _to_nested_lists(_, _)
RECURSIVE ScanLoop(_, _, _)
ScanLoop(txt, idx, lst) ==
  IF ~(idx <= Len(txt)) THEN [Fail("") EXCEPT !.lst = lst, !.idx = idx]
  ELSE
    LET c == txt[idx]
    IN IF c = "(" THEN
         LET r == _to_nested_lists(txt, idx + 1)
         IN IF r.err # "" THEN r
            ELSE ScanLoop(txt, r.idx, Append(lst, List(r.lst)))
       ELSE IF c = ")" THEN [Fail("") EXCEPT !.lst = lst, !.idx = idx + 1]
       ELSE ScanLoop(txt, idx + 1, AddChar(lst, c))

_to_nested_lists(txt, idx) ==
  IF idx > Len(txt) THEN Fail("IndexError")
  ELSE
    LET r == ScanLoop(txt, idx, <<>>)
        ret == Stripped(r.lst)
    IN IF r.err # "" THEN r
       ELSE IF \E i \in 2..Len(ret) : ret[i].isstr = ret[i - 1].isstr
         THEN Fail("ValueError")
       ELSE [r EXCEPT !.lst = ret]

valid_conn(conn, curr) == curr \in conns /\ (conn = "" \/ conn = curr)

(* _rec_parser(lst). RecLoop is its while loop with i counted from 0 as   *)
(* in the code; RecStep is one round of the loop on a str entry.          *)
RECURSIVE _rec_parser(_, _)
RECURSIVE RecLoop(_, _, _, _, _)
RecStep(lst, i, connective, subs, ctx) ==
  LET segs0 == split(strip(lst[i + 1].s))
      notLast == i # Len(lst) - 1
      isNot == notLast /\ segs0[Len(segs0)] = "NOT"
      inner == _rec_parser(lst[i + 2].l, ctx \o <<i + 1, 0>>)
      next == NotFormula(ctx \o <<i + 1>>, inner.node)
      diff == IF isNot THEN 2 ELSE 1
      WithNext(ss) == IF isNot THEN Append(ss, next) ELSE ss
      (* connective after *)
      segs1 == IF isNot THEN SubSeq(segs0, 1, Len(segs0) - 1) ELSE segs0
      skipA == notLast /\ Len(segs1) = 0 /\ i = 0
      raiseA == IF notLast
                THEN Len(segs1) = 0 \/ ~valid_conn(connective, segs1[Len(segs1)])
                ELSE segs0[Len(segs0)] = "NOT" \/ segs0[Len(segs0)] \in conns
      connA == IF notLast THEN segs1[Len(segs1)] ELSE connective
      segs2 == IF notLast /\ Len(segs1) > 1
               THEN SubSeq(segs1, 1, Len(segs1) - 1) ELSE segs1
      (* connective before *)
      raiseB == i > 0 /\ (Len(segs2) = 0 \/ ~valid_conn(connA, segs2[1]))
      connB == IF i > 0 THEN segs2[1] ELSE connA
      segs3 == IF i > 0 THEN Tail(segs2) ELSE segs2
      skipB == i > 0 /\ Len(segs3) = 0 /\ i # Len(segs3) - 1
      raiseB2 == i > 0 /\ Len(segs3) = 0
      (* processing current subformula *)
      sub == _parse_helper(segs3, ctx \o <<i>>)
      subsC == IF Len(segs3) = 0 THEN subs
               ELSE IF connB \in {"AND", "OR"} /\ sub.conn = connB
                 THEN subs \o sub.node.subs
               ELSE Append(subs, sub.node)
  IN IF isNot /\ inner.err # "" THEN inner
     ELSE IF skipA THEN RecLoop(lst, i + diff, connective, WithNext(subs), ctx)
     ELSE IF raiseA THEN Fail("ValueError")
     ELSE IF raiseB THEN Fail("ValueError")
     ELSE IF skipB THEN RecLoop(lst, i + diff, connB, WithNext(subs), ctx)
     ELSE IF raiseB2 THEN Fail("ValueError")
     ELSE IF Len(segs3) > 0 /\ sub.err # "" THEN sub
     ELSE RecLoop(lst, i + diff, connB, WithNext(subsC), ctx)

(* A faulty RecLoop: the operands of an And/Or that a parenthesized group *)
(* gave are put into the operand list of the enclosing level.             *)
RECURSIVE RecLoop_mut(_, _, _, _, _)
RecLoop_mut(lst, i, connective, subs, ctx) ==
  IF ~(i < Len(lst)) THEN _formula_builder(subs, connective, ctx)
  ELSE IF ~lst[i + 1].isstr THEN
    LET r == _rec_parser(lst[i + 1].l, ctx \o <<i>>)
    IN IF r.err # "" THEN r
       ELSE IF r.node.type = AND \/ r.node.type = OR
         THEN RecLoop_mut(lst, i + 1, connective, subs \o r.node.subs, ctx)
       ELSE RecLoop_mut(lst, i + 1, connective, Append(subs, r.node), ctx)
  ELSE RecStep(lst, i, connective, subs, ctx)

RecLoop(lst, i, connective, subs, ctx) ==
  IF ~(i < Len(lst)) THEN _formula_builder(subs, connective, ctx)
  ELSE IF ~lst[i + 1].isstr THEN
    LET r == _rec_parser(lst[i + 1].l, ctx \o <<i>>)
    IN IF r.err # "" THEN r
       ELSE RecLoop(lst, i + 1, connective, Append(subs, r.node), ctx)
  ELSE RecStep(lst, i, connective, subs, ctx)

_rec_parser(lst, ctx) ==
  IF Len(lst) = 0 THEN Fail("ValueError")
  ELSE IF Len(lst) = 1 THEN
    IF lst[1].isstr THEN _parse_helper(split(strip(lst[1].s)), ctx)
    ELSE _rec_parser(lst[1].l, ctx)
  ELSE RecLoop(lst, 0, "", <<>>, ctx)

(* parse_formula(text): the objects it constructs get ids below ctx.      *)
parse_formula(txt, ctx) ==
  LET r == _to_nested_lists(txt, 1)
  IN IF r.err # "" THEN r ELSE _rec_parser(r.lst, ctx)

(* ------------------------------------ src/pyprops.py: parse, rec_parse *)
(* The end of _parse_helper and of rec_parse: the formula of the operands *)
(* subs under connective. subs.pop() raises IndexError on an empty list.  *)
pyprops_builder(subs, connective, ctx) ==
  IF connective = "" THEN
    IF Len(subs) = 0 THEN Fail("IndexError") ELSE Value(subs[Len(subs)], connective)
  ELSE IF connective = "AND" THEN
    IF Len(subs) = 0 THEN Fail("ValueError")
    ELSE Value(AndFormula(ctx, subs, "list"), connective)
  ELSE IF connective = "OR" THEN
    IF Len(subs) = 0 THEN Fail("ValueError")
    ELSE Value(OrFormula(ctx, subs, "list"), connective)
  ELSE IF connective = "IMPLIES" THEN
    IF Len(subs) # 2 THEN Fail("ValueError")
    ELSE Value(ImpliesFormula(ctx, subs[1], subs[2]), connective)
  ELSE
    IF Len(subs) # 2 THEN Fail("ValueError")
    ELSE Value(IffFormula(ctx, subs[1], subs[2]), connective)

(* The for loop of pyprops._parse_helper; i counts from 1.                *)
RECURSIVE pyprops_HelperLoop(_, _, _, _, _, _)
pyprops_HelperLoop(segments, i, subs, connective, prev, ctx) ==
  IF i > Len(segments) THEN pyprops_builder(subs, connective, ctx)
  ELSE
    LET cur == segments[i]
    IN IF prev # "" /\ ((prev \in conns) = (cur \in conns)) THEN Fail("ValueError")
       ELSE IF cur \in conns THEN
         IF connective = "" THEN pyprops_HelperLoop(segments, i + 1, subs, cur, cur, ctx)
         ELSE IF connective # cur THEN Fail("ValueError")
         ELSE pyprops_HelperLoop(segments, i + 1, subs, connective, cur, ctx)
       ELSE pyprops_HelperLoop(segments, i + 1, Append(subs, PropVar(ctx \o <<i>>, cur)),
                               connective, cur, ctx)

(* pyprops._parse_helper(segments); segments[0] raises IndexError on an   *)
(* empty list.                                                            *)
pyprops_parse_helper(segments, ctx) ==
  IF \E i \in 1..Len(segments) : segments[i] = "NOT" THEN Fail("ValueError")
  ELSE IF Len(segments) = 0 THEN Fail("IndexError")
  ELSE IF segments[1] \in conns \/ segments[Len(segments)] \in conns THEN Fail("ValueError")
  ELSE pyprops_HelperLoop(segments, 1, <<>>, "", "", ctx)

(* An entry of rec_parse's segments: a str (s its lexemes, w its words    *)
(* once split) or a parsed Formula object.                                *)
StrSeg(s) == [isstr |-> TRUE, s |-> s, w |-> <<>>, node |-> NoNode]

ObjSeg(n) == [isstr |-> FALSE, s |-> <<>>, w |-> <<>>, node |-> n]

(* str.isspace() *)
isspace(s) == Len(s) > 0 /\ \A i \in 1..Len(s) : s[i] = " "

(* segments[-1] += text[index], after segments.append('') when segments   *)
(* is empty or ends in a Formula                                          *)
AddToSegments(segments, c) ==
  IF Len(segments) = 0 \/ ~segments[Len(segments)].isstr THEN Append(segments, StrSeg(<<c>>))
  ELSE [segments EXCEPT ![Len(segments)] = StrSeg(segments[Len(segments)].s \o <<c>>)]

(* The second while loop of rec_parse, i counted from 0 as in the code;   *)
(* curF and prevF tell whether cur and prev are Formula objects. ok(g)    *)
(* goes on with the round's results unless _parse_helper raised.          *)
RECURSIVE SegLoop(_, _, _, _, _, _, _)
SegLoop(ns, i, subs, connective, curF, prevF, ctx) ==
  IF ~(i < Len(ns)) THEN pyprops_builder(subs, connective, ctx)
  ELSE IF curF /\ prevF THEN Fail("ValueError")
  ELSE
    LET cur == ns[i + 1]
        w == cur.w
        n == Len(w)
        b1 == i > 0 /\ ~ns[i].isstr
        b2 == i < Len(ns) - 1 /\ ~ns[i + 2].isstr
        next == NotFormula(ctx \o <<i, 0>>, ns[i + 2].node)
        Go(h, j, ss, conn) ==
          IF h.err # "" THEN h
          ELSE SegLoop(ns, j, Append(ss, h.node), conn, FALSE, curF, ctx)
    IN IF ~cur.isstr THEN
         SegLoop(ns, i + 1, Append(subs, cur.node), connective, TRUE, curF, ctx)
       ELSE IF n = 1 THEN
         IF w[1] \notin conns \/ w[1] = "NOT" \/ (connective # "" /\ connective # w[1])
         THEN Fail("ValueError")
         ELSE SegLoop(ns, i + 1, subs, w[1], FALSE, curF, ctx)
       ELSE IF b1 THEN
         IF w[1] \notin conns \/ (connective # "" /\ connective # w[1])
         THEN Fail("ValueError")
         ELSE IF b2 THEN
           IF w[n] = "NOT" /\ i < Len(ns) - 1 THEN
             IF n < 3 \/ w[n - 1] # w[1] THEN Fail("ValueError")
             ELSE Go(pyprops_parse_helper(SubSeq(w, 2, n - 2), ctx \o <<i>>),
                     i + 2, Append(subs, next), w[1])
           ELSE IF w[n] = "NOT" \/ w[n] # w[1] THEN Fail("ValueError")
           ELSE Go(pyprops_parse_helper(SubSeq(w, 2, n - 1), ctx \o <<i>>), i + 1, subs, w[1])
         ELSE Go(pyprops_parse_helper(SubSeq(w, 2, n), ctx \o <<i>>), i + 1, subs, w[1])
       ELSE IF b2 THEN
         IF w[n] # "NOT" /\ (w[n] \notin conns \/ (connective # "" /\ connective # w[n]))
         THEN Fail("ValueError")
         ELSE IF w[n] = "NOT" /\ i < Len(ns) - 1 THEN
           IF n < 2 \/ w[n - 1] \notin conns \/ (connective # "" /\ w[n - 1] # connective)
           THEN Fail("ValueError")
           ELSE Go(pyprops_parse_helper(SubSeq(w, 1, n - 2), ctx \o <<i>>),
                   i + 2, Append(subs, next), w[n - 1])
         ELSE IF w[n] # "NOT" /\ ((connective = "" /\ w[n] \in conns) \/ connective = w[n]) THEN
           Go(pyprops_parse_helper(SubSeq(w, 1, n - 1), ctx \o <<i>>), i + 1, subs, w[n])
         ELSE SegLoop(ns, i + 1, subs, connective, FALSE, curF, ctx)
       ELSE SegLoop(ns, i + 1, subs, connective, FALSE, curF, ctx)

(* rec_parse(text, 0): TextLoop is its first while loop, index counted    *)
(* from 0 in lexemes; rec_parse_rest is the function from "trim empty     *)
(* strings" on. The result carries the index in idx.                      *)
RECURSIVE rec_parse(_, _)
rec_parse_rest(segments0, index, ctx) ==
  LET segments == SelectSeq(segments0, LAMBDA e : ~(e.isstr /\ isspace(e.s)))
      new_segments == [k \in 1..Len(segments) |->
                         IF segments[k].isstr
                         THEN [segments[k] EXCEPT !.w = split(strip(segments[k].s))]
                         ELSE segments[k]]
      r == IF Len(segments) = 1 THEN
             IF segments[1].isstr
             THEN pyprops_parse_helper(split(strip(segments[1].s)), ctx)
             ELSE Value(segments[1].node, "")
           ELSE SegLoop(new_segments, 0, <<>>, "", FALSE, FALSE, ctx)
  IN IF r.err # "" THEN r ELSE [r EXCEPT !.idx = index]

RECURSIVE TextLoop(_, _, _, _)
TextLoop(txt, index, segments, ctx) ==
  IF index < Len(txt) /\ txt[index + 1] # ")" THEN
    IF txt[index + 1] = "(" THEN
      LET r == rec_parse(SubSeq(txt, index + 2, Len(txt)), ctx \o <<index>>)
      IN IF r.err # "" THEN r
         ELSE TextLoop(txt, index + r.idx + 2, Append(segments, ObjSeg(r.node)), ctx)
    ELSE TextLoop(txt, index + 1, AddToSegments(segments, txt[index + 1]), ctx)
  ELSE rec_parse_rest(segments, index, ctx)

rec_parse(txt, ctx) == TextLoop(txt, 0, <<>>, ctx)

(* pyprops.parse(text) *)
parse(txt, ctx) == rec_parse(strip(txt), ctx)

(* ------------------------------------------ formula_expression_generator *)
(* The texts formula_expression_generator(num_vars, max_depth, length)    *)
(* can return over the variable names of Vars, one for each outcome of    *)
(* its random draws. GenOperands is one round of its while loop: the      *)
(* pairs <<cur, diff>> it can append with length still to fill.           *)
RECURSIVE formula_expression_generator(_, _)
GenOperands(max_depth, length) ==
  LET plain == {<< <<v>>, 1 >> : v \in Vars}
      nested == IF max_depth > 1 /\ length > 1
                THEN UNION {{<< IF diff # 1 THEN <<"(">> \o cur \o <<")">> ELSE cur, diff >> :
                               cur \in formula_expression_generator(max_depth - 1, diff)} :
                            diff \in 1..(length - 1)}
                ELSE {}
      Negated(cur) == IF cur[1] # "(" THEN <<"NOT", "(">> \o cur \o <<")">>
                      ELSE <<"NOT">> \o cur
  IN UNION {{o, <<Negated(o[1]), o[2]>>} : o \in plain \cup nested}

(* The lists ret the while loop can build for a length: an operand that   *)
(* uses up diff, then the rounds for length - diff.                       *)
RECURSIVE GenLists(_, _)
GenLists(max_depth, length) ==
  IF length = 0 THEN {<<>>}
  ELSE
    LET operands == GenOperands(max_depth, length)
    IN UNION {LET rest == GenLists(max_depth, length - diff)
              IN {<<o[1]>> \o r : o \in {x \in operands : x[2] = diff}, r \in rest} :
              diff \in {o[2] : o \in operands}}

formula_expression_generator(max_depth, length) ==
  UNION {IF Len(ret) = 1 THEN {ret[1]}
         ELSE IF Len(ret) = 2 THEN {Join(ret, <<" ", c, " ">>) : c \in conns}
         ELSE {Join(ret, <<" ", c, " ">>) : c \in {"AND", "OR"}} :
         ret \in GenLists(max_depth, length)}

(* ------------------------------------------------------------------ state *)
(* f     : the formula the client program holds                           *)
(* depth : the number of constructor steps that built it                  *)
(* nobj  : the number of objects constructed so far (the next fresh id)   *)
(* res   : the last operation applied and what it returned; kind is the   *)
(*         class of the exception raised ("" when none is recorded)       *)
(* text  : the formula expression the client program has written          *)
NoRes == [op |-> "none", err |-> FALSE, val |-> FALSE, node |-> NoNode,
          other |-> NoNode, keys |-> {}, trues |-> {}, h |-> 0, kind |-> "",
          tas |-> <<>>, num |-> 0, txt |-> <<>>]

Init ==
  /\ f \in {PropVar(<<0>>, v) : v \in Vars}
  /\ depth = 0
  /\ nobj = 1
  /\ res = NoRes
  /\ text = <<>>

(* The client program is sequential: it constructs, applies one operation *)
(* to f, looks at the result and drops it before its next step.          *)
Idle == res.op = "none"

Built(n, k) ==
  /\ Idle
  /\ depth < MaxDepth
  /\ f' = n
  /\ depth' = depth + 1
  /\ nobj' = nobj + k
  /\ res' = NoRes
  /\ UNCHANGED text

Sibling == PropVar(<<nobj>>, "q")

BuildNot == Built(NotFormula(<<nobj>>, f), 1)

BuildAnd ==
  \E subs \in {<<f, Sibling>>, <<f, f>>} : Built(AndFormula(<<nobj + 1>>, subs, "list"), 2)

BuildOr ==
  \E subs \in {<<f, Sibling>>, <<f, f>>} : Built(OrFormula(<<nobj + 1>>, subs, "list"), 2)

BuildImplies ==
  \/ Built(ImpliesFormula(<<nobj + 1>>, f, Sibling), 2)
  \/ Built(ImpliesFormula(<<nobj + 1>>, Sibling, f), 2)

BuildIff == Built(IffFormula(<<nobj + 1>>, f, Sibling), 2)

Returned(r) == Idle /\ res' = r /\ UNCHANGED <<f, depth, nobj, text>>

Discard == ~Idle /\ res' = NoRes /\ UNCHANGED <<f, depth, nobj, text>>

NodeRes(op, n, h) ==
  [NoRes EXCEPT !.op = op, !.err = Raised(n), !.node = n, !.h = h]

EvaluateOp ==
  \E a \in Assignments :
    LET r == evaluate(f, a)
    IN Returned([NoRes EXCEPT !.op = "evaluate", !.err = r.err, !.val = r.val,
                              !.keys = a.keys, !.trues = a.trues])

NegationOp ==
  \E h \in Hashes : Returned(NodeRes("negation", negation(f, <<nobj>>, h), h))

DoubleNegationOp ==
  \E h \in Hashes :
    Returned(NodeRes("negation2",
                     negation(negation(f, <<nobj, 1>>, h), <<nobj, 2>>, h), h))

(* A faulty ToNnfOp: the conversion is done in place, f itself becomes   *)
(* the formula that is returned.                                         *)
ToNnfOp_mut ==
  \E h \in Hashes :
    LET n == to_nnf(f, <<nobj>>, h)
    IN /\ Idle
       /\ res' = NodeRes("to_nnf", n, h)
       /\ f' = IF Raised(n) THEN f ELSE n
       /\ UNCHANGED <<depth, nobj, text>>

ToNnfOp ==
  \E h \in Hashes : Returned(NodeRes("to_nnf", to_nnf(f, <<nobj>>, h), h))

ToCnfOp ==
  \E h \in Hashes : Returned(NodeRes("to_cnf", to_cnf(f, <<nobj>>, h), h))

ToDnfOp ==
  \E h \in Hashes : Returned(NodeRes("to_dnf", to_dnf(f, <<nobj>>, h), h))

(* f == y for a formula object y the program holds: f itself, an operand *)
(* of f, or the expression of f constructed again.                       *)
Held == {f, Rebuild(f, <<nobj>>)} \cup {f.subs[i] : i \in 1..Len(f.subs)}

CompareOp ==
  \E y \in Held :
    Returned([NoRes EXCEPT !.op = "eq", !.val = FormulaEq(f, y),
                           !.node = f, !.other = y])

Next ==
  \/ BuildNot
  \/ BuildAnd
  \/ BuildOr
  \/ BuildImplies
  \/ BuildIff
  \/ EvaluateOp
  \/ NegationOp
  \/ DoubleNegationOp
  \/ ToNnfOp
  \/ ToCnfOp
  \/ ToDnfOp
  \/ CompareOp
  \/ Discard

Spec == Init /\ [][Next]_vars

(* A client that constructs formulas and only negates them.              *)
NextNegation ==
  \/ BuildNot
  \/ BuildAnd
  \/ BuildOr
  \/ BuildImplies
  \/ BuildIff
  \/ NegationOp
  \/ DoubleNegationOp
  \/ Discard

SpecNegation == Init /\ [][NextNegation]_vars

(* A client that constructs formulas and only converts them to NNF.      *)
NextNnf ==
  \/ BuildNot
  \/ BuildAnd
  \/ BuildOr
  \/ BuildImplies
  \/ BuildIff
  \/ ToNnfOp
  \/ Discard

SpecNnf == Init /\ [][NextNnf]_vars

(* A client that constructs formulas and applies every operation that    *)
(* reads a formula: evaluate, get_variables, num_connectives, to_text,   *)
(* truth_table, negation, to_nnf, to_cnf, to_dnf. It writes no          *)
(* disjunction itself; those arise as results.                           *)
RECURSIVE num_connectives(_)
num_connectives(fm) ==
  IF fm.type = VAR THEN 0
  ELSE IF fm.type = NOT THEN num_connectives(fm.subs[1]) + 1
  ELSE IF fm.type = AND \/ fm.type = OR THEN
    LET Sum[k \in 0..Len(fm.subs)] ==
          IF k = 0 THEN Len(fm.subs) - 1
          ELSE Sum[k - 1] + num_connectives(fm.subs[k])
    IN Sum[Len(fm.subs)]
  ELSE num_connectives(fm.subs[1]) + num_connectives(fm.subs[2]) + 1

GetVariablesOp ==
  Returned([NoRes EXCEPT !.op = "get_variables", !.keys = get_variables(f)])

NumConnectivesOp ==
  Returned([NoRes EXCEPT !.op = "num_connectives", !.num = num_connectives(f)])

ToTextOp == Returned([NoRes EXCEPT !.op = "to_text", !.txt = to_text(f)])

TruthTableOp ==
  \E h \in Hashes :
    LET tt == truth_table(f, h)
    IN Returned([NoRes EXCEPT !.op = "truth_table", !.h = h,
                   !.err = \E i \in 1..Len(tt) : tt[i].r.err,
                   !.tas = [i \in 1..Len(tt) |-> tt[i].asg],
                   !.trues = {i \in 1..Len(tt) : tt[i].r.val}])

NextFrame ==
  \/ BuildNot
  \/ BuildAnd
  \/ BuildImplies
  \/ BuildIff
  \/ EvaluateOp
  \/ GetVariablesOp
  \/ NumConnectivesOp
  \/ ToTextOp
  \/ TruthTableOp
  \/ NegationOp
  \/ ToNnfOp
  \/ ToCnfOp
  \/ ToDnfOp
  \/ Discard

SpecFrame == Init /\ [][NextFrame]_vars

(* A client that constructs formulas over up to three variables and asks *)
(* for their truth assignments, whether they are tautologies and whether *)
(* they are satisfiable.                                                  *)
Third == PropVar(<<nobj>>, "r")

BuildThird ==
  \/ Built(AndFormula(<<nobj + 1>>, <<f, Third>>, "list"), 2)
  \/ Built(OrFormula(<<nobj + 1>>, <<Third, f>>, "list"), 2)

(* The iteration orders of a set of up to three variable names.           *)
NameHashes == 0..(Cardinality(Vars \cup {"r"}) * Cardinality(Vars) - 1)

GenerateOp ==
  \E h \in NameHashes :
    Returned([NoRes EXCEPT !.op = "generate", !.h = h,
                           !.tas = generate_truth_assignments(f, h)])

TautologyOp ==
  \E h \in Hashes :
    LET r == is_tautology(f, h)
    IN Returned([NoRes EXCEPT !.op = "is_tautology", !.err = r.err, !.val = r.val])

SatisfiableOp ==
  \E h \in Hashes :
    LET r == is_satisfiable(f, h)
    IN Returned([NoRes EXCEPT !.op = "is_satisfiable", !.err = r.err, !.val = r.val])

NextTruth ==
  \/ BuildNot
  \/ BuildImplies
  \/ BuildIff
  \/ BuildThird
  \/ GenerateOp
  \/ TautologyOp
  \/ SatisfiableOp
  \/ Discard

SpecTruth == Init /\ [][NextTruth]_vars

(* ------------------------------------------------- writing an expression *)
(* The client program writes a formula expression piece by piece (depth   *)
(* counts the pieces) and hands it to parse_formula.                      *)
InitParse ==
  /\ f = PropVar(<<0>>, "p")
  /\ depth = 0
  /\ nobj = 1
  /\ res = NoRes
  /\ text = <<>>

Wrote(t) ==
  /\ Idle
  /\ depth < MaxPieces
  /\ text' = t
  /\ depth' = depth + 1
  /\ res' = NoRes
  /\ UNCHANGED <<f, nobj>>

IsWord(c) == c \notin {"(", ")", " "}

(* A word is set off from the word before it by one blank.                *)
Spaced(w) ==
  IF Len(text) > 0 /\ IsWord(text[Len(text)]) THEN text \o <<" ", w>>
  ELSE text \o <<w>>

AppendVar == \E v \in Vars : Wrote(Spaced(v))

AppendNot == Wrote(Spaced("NOT"))

AppendConn(cs) == \E c \in cs : Wrote(Spaced(c))

AppendOpen == Wrote(text \o <<"(">>)

AppendClose == Wrote(text \o <<")">>)

AppendGroup == \E v \in Vars : Wrote(text \o <<"(", v, ")">>)

AppendSpace == text = <<>> /\ Wrote(<<" ">>)

WrapGroup == Len(text) > 0 /\ Wrote(<<"(">> \o text \o <<")">>)

ParseRes(txt, ctx) ==
  LET r == parse_formula(txt, ctx)
  IN [NoRes EXCEPT !.op = "parse", !.err = r.err # "", !.kind = r.err, !.node = r.node]

ParseOp == Returned(ParseRes(text, <<nobj>>))

(* pyprops.parse applied to the text.                                     *)
OldParseOp ==
  LET r == parse(text, <<nobj>>)
  IN Returned([NoRes EXCEPT !.op = "pyprops.parse", !.err = r.err # "",
                            !.kind = r.err, !.node = r.node])

NextParse ==
  \/ AppendVar
  \/ AppendNot
  \/ AppendConn(conns)
  \/ AppendOpen
  \/ AppendClose
  \/ AppendGroup
  \/ AppendSpace
  \/ ParseOp
  \/ Discard

SpecParse == InitParse /\ [][NextParse]_vars

(* A client that writes expressions and parses them with either entry     *)
(* point.                                                                 *)
NextParsers ==
  \/ AppendVar
  \/ AppendNot
  \/ AppendConn(conns)
  \/ AppendOpen
  \/ AppendClose
  \/ AppendGroup
  \/ AppendSpace
  \/ ParseOp
  \/ OldParseOp
  \/ Discard

SpecParsers == InitParse /\ [][NextParsers]_vars

(* The "negate" button: the text is parsed and replaced by the rendering  *)
(* of the negation of its formula; when the text is rejected the handler  *)
(* ends with the parser's exception and the text stays.                   *)
FormulaNegate ==
  \E h \in Hashes :
    LET r == parse_formula(text, <<nobj>>)
    IN IF r.err # "" THEN Returned(ParseRes(text, <<nobj>>))
       ELSE Wrote(to_text(negation(r.node, <<nobj, 0>>, h)))

(* A client that writes expressions, groups included, negates and parses  *)
(* them.                                                                  *)
NextRender ==
  \/ AppendVar
  \/ AppendNot
  \/ AppendConn({"AND", "IFF"})
  \/ AppendOpen
  \/ AppendClose
  \/ WrapGroup
  \/ FormulaNegate
  \/ ParseOp
  \/ Discard

SpecRender == InitParse /\ [][NextRender]_vars


(* test_correctness: a text is drawn from formula_expression_generator    *)
(* and parsed.                                                            *)
RandomFormula ==
  /\ Idle
  /\ text = <<>>
  /\ \E max_depth \in 1..GenDepth, length \in 1..GenLength :
       \E t \in formula_expression_generator(max_depth, length) : Wrote(t)

NextCanon ==
  \/ RandomFormula
  \/ ParseOp
  \/ Discard

SpecCanon == InitParse /\ [][NextCanon]_vars

(* ------------------------------------------------------------ properties *)
(* The complete assignments of a formula's variables.                     *)
Complete(fm) == {a \in Assignments : a.keys = get_variables(fm)}

(* Every subtree of a formula, the formula included.                      *)
RECURSIVE Subtrees(_)
Subtrees(fm) ==
  {fm} \cup UNION {Subtrees(fm.subs[i]) : i \in 1..Len(fm.subs)}

(* C1: whenever a variable of f is not a key of the assignment,           *)
(* f.evaluate(assignment) fails with the missing-variable error and       *)
(* returns no boolean.                                                    *)
C1_MissingVariableFails ==
  (res.op = "evaluate" /\ ~(get_variables(f) \subseteq res.keys)) => res.err

(* C2: to_cnf(f) returns without raising and equivalent(f, to_cnf(f)) is  *)
(* true, for every f, tautologies included.                               *)
C2_ToCnfEquivalent ==
  res.op = "to_cnf" =>
    /\ ~res.err
    /\ equivalent(f, res.node, <<nobj, 0>>, res.h) = Ok(TRUE)

(* C3: to_dnf(f) returns without raising and equivalent(f, to_dnf(f)) is  *)
(* true, for every f, fallacies included.                                 *)
C3_ToDnfEquivalent ==
  res.op = "to_dnf" =>
    /\ ~res.err
    /\ equivalent(f, res.node, <<nobj, 0>>, res.h) = Ok(TRUE)

(* C4: for a tautology f, to_cnf(f) does not fail and returns a           *)
(* conjunction with at least one clause that is true under every          *)
(* assignment.                                                            *)
C4_TautologyCnfWellFormed ==
  (res.op = "to_cnf" /\ is_tautology(f, res.h) = Ok(TRUE)) =>
    /\ ~res.err
    /\ res.node.type = AND
    /\ Len(res.node.subs) >= 1
    /\ is_tautology(res.node, res.h) = Ok(TRUE)

(* C5: for a fallacy f, to_dnf(f) does not fail and returns a             *)
(* disjunction with at least one clause that is false under every         *)
(* assignment.                                                            *)
C5_FallacyDnfWellFormed ==
  (res.op = "to_dnf" /\ is_fallacy(f, res.h) = Ok(TRUE)) =>
    /\ ~res.err
    /\ res.node.type = OR
    /\ Len(res.node.subs) >= 1
    /\ is_fallacy(res.node, res.h) = Ok(TRUE)

(* C6: to_nnf(f) has the truth value of f under every complete            *)
(* assignment of f's variables, and equivalent(f, to_nnf(f)) is true.     *)
C6_ToNnfEquivalent ==
  res.op = "to_nnf" =>
    /\ ~res.err
    /\ \A a \in Complete(f) : evaluate(res.node, a) = evaluate(f, a)
    /\ equivalent(f, res.node, <<nobj, 0>>, res.h) = Ok(TRUE)

(* C6 witness: to_nnf applied to three stacked NOTs above an IFF.         *)
C6_Witness ==
  /\ res.op = "to_nnf"
  /\ f.type = NOT
  /\ count_nots(f).n = 3
  /\ count_nots(f).base.type = IFF

(* A formula without its object identities: kinds, names, operand order. *)
RECURSIVE Shape(_)
Shape(fm) ==
  [type |-> fm.type, name |-> fm.name,
   subs |-> [i \in 1..Len(fm.subs) |-> Shape(fm.subs[i])]]

(* The nodes of fm with the number of NOT layers above each (nots) and    *)
(* whether the node lies in the hypothesis of an IMPLIES that itself has  *)
(* an odd number of NOT layers above it (inNegHyp).                       *)
RECURSIVE Positions(_, _, _)
Positions(fm, nots, inNegHyp) ==
  {[g |-> fm, nots |-> nots, inNegHyp |-> inNegHyp]} \cup
  UNION {Positions(fm.subs[i],
                   IF fm.type = NOT THEN nots + 1 ELSE nots,
                   inNegHyp \/ (fm.type = IMPLIES /\ i = 1 /\ nots % 2 = 1))
         : i \in 1..Len(fm.subs)}

(* Every NOT of fm stands directly above a variable.                      *)
NotsOnVars(fm) == \A s \in Subtrees(fm) : s.type = NOT => s.subs[1].type = VAR

(* The shapes of the subtrees of out.                                     *)
ShapesIn(out) == {Shape(s) : s \in Subtrees(out)}

(* A tree with the shapes in shapes keeps g: it has a node of g's kind    *)
(* whose operands are the NNF of g's operands.                            *)
Keeps(shapes, g, h) ==
  [type |-> g.type, name |-> "",
   subs |-> <<Shape(to_nnf(g.subs[1], <<1>>, h)),
              Shape(to_nnf(g.subs[2], <<2>>, h))>>] \in shapes

(* C7 as stated: in to_nnf(f) every NOT stands directly above a variable, *)
(* and every IMPLIES/IFF node of f under an even number of NOT layers is  *)
(* kept as an IMPLIES/IFF node with NNF-converted operands.               *)
C7_Original ==
  res.op = "to_nnf" =>
    /\ NotsOnVars(res.node)
    /\ LET shapes == ShapesIn(res.node)
       IN \A p \in Positions(f, 0, FALSE) :
            (p.g.type \in {IMPLIES, IFF} /\ p.nots % 2 = 0)
              => Keeps(shapes, p.g, res.h)

(* C7 amended: in to_nnf(f) every NOT stands directly above a variable,   *)
(* and every IMPLIES/IFF node of f that lies under an even number of NOT  *)
(* layers and not inside the hypothesis of an IMPLIES that itself lies    *)
(* under an odd number of NOT layers is kept as an IMPLIES/IFF node with  *)
(* NNF-converted operands.                                                *)
C7_NnfShape ==
  res.op = "to_nnf" =>
    /\ NotsOnVars(res.node)
    /\ LET shapes == ShapesIn(res.node)
       IN \A p \in Positions(f, 0, FALSE) :
            (p.g.type \in {IMPLIES, IFF} /\ p.nots % 2 = 0 /\ ~p.inNegHyp)
              => Keeps(shapes, p.g, res.h)

(* C7 witness: to_nnf applied where an IMPLIES lies under two NOT layers  *)
(* that are separated by an AND or OR.                                    *)
C7_Witness ==
  /\ res.op = "to_nnf"
  /\ f.type = NOT
  /\ f.subs[1].type \in {AND, OR}
  /\ \E p \in Positions(f, 0, FALSE) :
       p.g.type = IMPLIES /\ p.nots = 2 /\ ~p.inNegHyp

(* C8: f.negation() evaluates to the complement of f under every complete *)
(* assignment of f's variables.                                           *)
C8_NegationComplement ==
  res.op = "negation" =>
    /\ ~res.err
    /\ \A a \in Complete(f) :
         /\ ~evaluate(f, a).err
         /\ evaluate(res.node, a) = Ok(~evaluate(f, a).val)

(* C8 witness: negation() of an And/Or whose set of negated operands      *)
(* holds one object twice, so the result has fewer operands.              *)
C8_Witness ==
  /\ res.op = "negation"
  /\ f.type \in {AND, OR}
  /\ res.node.coll = "set"
  /\ Len(res.node.subs) < Len(f.subs)

(* C9: equivalent(f, f.negation().negation()) returns true.               *)
C9_DoubleNegation ==
  res.op = "negation2" =>
    /\ ~res.err
    /\ equivalent(f, res.node, <<nobj, 0>>, res.h) = Ok(TRUE)

(* C9 witness: the double negation of an IFF, an AND of two ORs.          *)
C9_Witness ==
  /\ res.op = "negation2"
  /\ f.type = IFF
  /\ res.node.type = AND
  /\ Len(res.node.subs) = 2

(* C10: two formula objects compare equal exactly when their to_text()    *)
(* renderings are equal.                                                  *)
C10_EqIffSameText ==
  res.op = "eq" => (res.val <=> (to_text(res.node) = to_text(res.other)))

(* ------------------------------------------------- reading an expression *)
(* The lexemes of a text that are not whitespace.                         *)
Toks(txt) == SelectSeq(txt, LAMBDA c : c # " ")

(* The nesting level of position i: the parentheses opened minus the      *)
(* parentheses closed before it.                                          *)
RECURSIVE Level(_, _)
Level(txt, i) ==
  IF i <= 1 THEN 0
  ELSE Level(txt, i - 1) + (IF txt[i - 1] = "(" THEN 1
                            ELSE IF txt[i - 1] = ")" THEN 0 - 1 ELSE 0)

(* Positions i < j lie in the same group: no parenthesis that encloses    *)
(* one of them opens or closes between them.                              *)
SameLevel(txt, i, j) ==
  /\ i < j
  /\ Level(txt, i) = Level(txt, j)
  /\ \A k \in i..j : Level(txt, k) >= Level(txt, i)

IsVarWord(c) == IsWord(c) /\ c \notin conns /\ c # "NOT"

Parsed == res.op = "parse"

(* C11: a text with two different connectives among AND, OR, IMPLIES, IFF *)
(* at the same nesting level, no parentheses separating them, is rejected *)
(* by parse_formula, also when that level holds a parenthesized group or  *)
(* a NOT(...) operand.                                                    *)
C11_MixedConnectivesRejected ==
  (Parsed /\ \E i, j \in 1..Len(text) :
               /\ text[i] \in conns
               /\ text[j] \in conns
               /\ text[i] # text[j]
               /\ SameLevel(text, i, j))
    => res.err

(* C12: a text whose parentheses do not match (one opened and never       *)
(* closed, or one closed that was never opened) or that holds an empty    *)
(* group "()" is rejected by parse_formula.                               *)
C12_UnmatchedParenthesesRejected ==
  (Parsed /\ \/ Level(text, Len(text) + 1) # 0
             \/ \E i \in 1..Len(text) : Level(text, i + 1) < 0
             \/ \E i \in 1..Len(Toks(text)) - 1 :
                  Toks(text)[i] = "(" /\ Toks(text)[i + 1] = ")")
    => res.err

(* C13: a text with two connectives next to each other and no operand     *)
(* between them, or two operands next to each other and no connective     *)
(* between them, is rejected by parse_formula, at any level and on either *)
(* side of a parenthesized group.                                         *)
C13_AdjacencyRejected ==
  (Parsed /\ \E i \in 1..Len(Toks(text)) - 1 :
               LET a == Toks(text)[i]
                   b == Toks(text)[i + 1]
               IN \/ a \in conns /\ b \in conns
                  \/ /\ a = ")" \/ IsVarWord(a)
                     /\ b = "(" \/ b = "NOT" \/ IsVarWord(b))
    => res.err

(* C14: a text in which IMPLIES (or IFF) joins more than two operands at  *)
(* one nesting level is rejected by parse_formula.                        *)
C14_ImpliesIffBinary ==
  (Parsed /\ \E i, j \in 1..Len(text) :
               /\ text[i] \in {"IMPLIES", "IFF"}
               /\ text[j] = text[i]
               /\ SameLevel(text, i, j))
    => res.err

(* C15: a text in which a NOT is not directly followed by a parenthesized *)
(* group (an identifier, a connective, another NOT, the end of the text   *)
(* or of the group follows) is rejected by parse_formula.                 *)
C15_NotNeedsGroup ==
  (Parsed /\ \E i \in 1..Len(Toks(text)) :
               /\ Toks(text)[i] = "NOT"
               /\ i = Len(Toks(text)) \/ Toks(text)[i + 1] # "(")
    => res.err

(* C16: when parse_formula returns no formula, the exception it raises is *)
(* a ValueError, whatever the text.                                       *)
C16_OnlyParseErrors ==
  (Parsed /\ res.err) => res.kind = "ValueError"

(* C17: for every text parse_formula accepts, with f the formula it       *)
(* returns, parse_formula accepts to_text(f) and the formula it returns   *)
(* for that text renders as to_text(f) again.                             *)
C17_RenderParseRender ==
  (Parsed /\ ~res.err) =>
    LET t == to_text(res.node)
        r == parse_formula(t, <<nobj + 1>>)
    IN r.err = "" /\ to_text(r.node) = t

(* An accepted text whose formula has an operand that is rendered in      *)
(* parentheses.                                                           *)
C17_Witness ==
  /\ Parsed
  /\ ~res.err
  /\ \E i \in 1..Len(res.node.subs) : res.node.subs[i].type \in {AND, OR, IMPLIES, IFF}

(* C18: for every text t that formula_expression_generator returns (the   *)
(* canonical form), parse_formula accepts t and the formula it returns    *)
(* renders as exactly t. In SpecCanon every text but the empty one was    *)
(* returned by the generator.                                             *)
C18_CanonicalRoundTrip ==
  (Parsed /\ text # <<>>) => (~res.err /\ to_text(res.node) = text)

(* A generated text with an IMPLIES between a parenthesized group and a   *)
(* NOT(...) has been parsed.                                              *)
C18_Witness ==
  /\ Parsed
  /\ text # <<>>
  /\ res.node.type = IMPLIES
  /\ res.node.subs[1].type \in {AND, OR, IMPLIES, IFF}
  /\ res.node.subs[2].type = NOT

(* C19: the rendering of f.negation() is fixed by the kinds, names and    *)
(* operand order of f: it is the same whatever the identities (hashes) of *)
(* the objects collected in the sets negation() builds.                   *)
C19_RenderingIgnoresIdentity ==
  res.op = "negation" =>
    \A h \in Hashes : to_text(negation(f, <<nobj>>, h)) = to_text(res.node)

(* Every assignment that binds exactly the variables of V.                *)
AllAssignments(V) == {[keys |-> V, trues |-> T] : T \in SUBSET V}

(* C20: for a formula f with n variables generate_truth_assignments       *)
(* returns exactly 2^n assignments, no two of them equal, each binding    *)
(* every variable of f and nothing else; so is_tautology(f) holds exactly *)
(* when f is true under every assignment of its variables and             *)
(* is_satisfiable(f) exactly when it is true under at least one.          *)
C20_TruthAssignmentsComplete ==
  LET V == get_variables(f)
  IN /\ res.op = "generate" =>
          /\ Len(res.tas) = 2 ^ Cardinality(V)
          /\ \A i \in 1..Len(res.tas) : res.tas[i].keys = V /\ res.tas[i].trues \subseteq V
          /\ \A i, j \in 1..Len(res.tas) :
               res.tas[i].trues = res.tas[j].trues => i = j
     /\ res.op = "is_tautology" =>
          /\ ~res.err
          /\ res.val <=> \A a \in AllAssignments(V) : evaluate(f, a).val
     /\ res.op = "is_satisfiable" =>
          /\ ~res.err
          /\ res.val <=> \E a \in AllAssignments(V) : evaluate(f, a).val

(* The assignments of a formula with three variables have been generated. *)
C20_Witness ==
  /\ res.op = "generate"
  /\ Cardinality(get_variables(f)) = 3
  /\ Len(res.tas) = 8

(* ------------------------------------------------------ groups of a text *)
(* Every parenthesis of the text has its partner.                         *)
RECURSIVE BalancedFrom(_, _, _)
BalancedFrom(txt, i, open) ==
  IF i > Len(txt) THEN open = 0
  ELSE IF txt[i] = "(" THEN BalancedFrom(txt, i + 1, open + 1)
  ELSE IF txt[i] = ")" THEN open > 0 /\ BalancedFrom(txt, i + 1, open - 1)
  ELSE BalancedFrom(txt, i + 1, open)

Balanced(txt) == BalancedFrom(txt, 1, 0)

(* The position of the ")" that closes the "(" at position i.             *)
RECURSIVE ClosingFrom(_, _, _)
ClosingFrom(txt, j, open) ==
  IF txt[j] = "(" THEN ClosingFrom(txt, j + 1, open + 1)
  ELSE IF txt[j] = ")" THEN IF open = 0 THEN j ELSE ClosingFrom(txt, j + 1, open - 1)
  ELSE ClosingFrom(txt, j + 1, open)

Closing(txt, i) == ClosingFrom(txt, i + 1, 0)

(* The connectives written between the first and the last variable of a   *)
(* run of words.                                                          *)
RECURSIVE Between(_, _)
Between(words, seen) ==
  IF Len(words) = 0 THEN <<>>
  ELSE IF IsVarWord(words[1]) THEN Between(Tail(words), TRUE)
  ELSE IF seen /\ words[1] \in conns /\ \E k \in 2..Len(words) : IsVarWord(words[k])
    THEN <<words[1]>> \o Between(Tail(words), seen)
  ELSE Between(Tail(words), seen)

(* The operands a run of words outside parentheses stands for at a level  *)
(* with connective conn: its variables one by one when they are joined by *)
(* conn itself (AND or OR), one operand of its own otherwise.             *)
RunOperands(run, conn) ==
  LET words == Toks(run)
      names == SelectSeq(words, IsVarWord)
      joins == Between(words, FALSE)
  IN IF Len(names) < 2 \/ (conn \in {"AND", "OR"} /\ \A k \in 1..Len(joins) : joins[k] = conn)
     THEN [k \in 1..Len(names) |-> [known |-> TRUE, txt |-> <<names[k]>>]]
     ELSE << [known |-> FALSE, txt |-> <<>>] >>

(* The operands written at the top level of a balanced text from position *)
(* i on, run being the words read since the last group: every             *)
(* parenthesized group is one operand, the formula of its content, inside *)
(* a NOT when the word before it is NOT.                                  *)
RECURSIVE Written(_, _, _, _)
Written(txt, i, run, conn) ==
  IF i > Len(txt) THEN RunOperands(run, conn)
  ELSE IF txt[i] = "(" THEN
    LET j == Closing(txt, i)
        inner == to_text(parse_formula(SubSeq(txt, i + 1, j - 1), <<0>>).node)
        words == Toks(run)
        negated == Len(words) > 0 /\ words[Len(words)] = "NOT"
        group == IF negated THEN <<"NOT", "(">> \o inner \o <<")">> ELSE inner
    IN RunOperands(run, conn) \o << [known |-> TRUE, txt |-> group] >>
         \o Written(txt, j + 1, <<>>, conn)
  ELSE Written(txt, i + 1, Append(run, txt[i]), conn)

(* The operand list of a formula; a variable or a NOT is its own only     *)
(* operand.                                                               *)
Operands(fm) == IF fm.type \in {AND, OR, IMPLIES, IFF} THEN fm.subs ELSE <<fm>>

ConnOf(fm) ==
  IF fm.type = AND THEN "AND" ELSE IF fm.type = OR THEN "OR"
  ELSE IF fm.type = IMPLIES THEN "IMPLIES" ELSE IF fm.type = IFF THEN "IFF" ELSE ""

(* The text is one parenthesized group and nothing else.                  *)
OneGroup(txt) ==
  LET t == strip(txt) IN Len(t) > 0 /\ t[1] = "(" /\ Closing(t, 1) = Len(t)

(* C21: parse_formula keeps every parenthesized group as one operand of   *)
(* its level: in the formula of an accepted text with matching            *)
(* parentheses the operands are, in the order written, one operand for    *)
(* each group (the formula of the group's content, also when the group    *)
(* and the level use the same connective) and the variables of the runs   *)
(* of words joined by the level's own AND or OR.                          *)
C21_GroupsKept ==
  (Parsed /\ ~res.err /\ Balanced(text) /\ \E i \in 1..Len(text) : text[i] = "(") =>
    IF OneGroup(text)
    THEN LET t == strip(text)
         IN to_text(res.node) = to_text(parse_formula(SubSeq(t, 2, Len(t) - 1), <<0>>).node)
    ELSE LET exp == Written(text, 1, <<>>, ConnOf(res.node))
             got == Operands(res.node)
         IN /\ Len(got) = Len(exp)
            /\ \A k \in 1..Len(exp) : exp[k].known => to_text(got[k]) = exp[k].txt

(* An AND group has been parsed as the first of two operands of an AND.   *)
C21_Witness ==
  /\ Parsed
  /\ ~res.err
  /\ text[1] = "("
  /\ res.node.type = AND
  /\ Len(res.node.subs) = 2
  /\ res.node.subs[1].type = AND
  /\ res.node.subs[2].type = VAR

(* --------------------------------------------------- frame of operations *)
(* An operation on f has returned or raised in this step.                 *)
Operated == res.op = "none" /\ res'.op # "none"

(* Every node of formula r that is an object of formula fm (same          *)
(* identity) is that object as it stands in fm: same kind, name, operands *)
(* in the same order and container.                                       *)
OnlyReferences(r, fm) ==
  LET old == Subtrees(fm)
  IN \A n \in Subtrees(r) : (\E o \in old : o.id = n.id) => n \in old

(* C22: no operation mutates an existing formula: a step in which         *)
(* evaluate, get_variables, num_connectives, to_text, truth_table,        *)
(* negation, to_nnf, to_cnf or to_dnf is applied to f leaves f and every  *)
(* node below it as it was (kind, operands and their order, names, hence  *)
(* the rendering), also after earlier operations, and a formula it        *)
(* returns holds the objects of f it refers to unmodified.                *)
C22_OperationsDoNotMutate ==
  [][Operated => (/\ f' = f
                  /\ to_text(f') = to_text(f)
                  /\ OnlyReferences(res'.node, f))]_vars

(* An operation has returned a formula that refers to an object of f,     *)
(* f being a compound formula.                                            *)
C22_Witness ==
  /\ res.op \in {"negation", "to_nnf"}
  /\ ~res.err
  /\ f.type \in {AND, OR, IMPLIES, IFF}
  /\ \E n \in Subtrees(res.node) : n \in Subtrees(f)
  /\ res.node \notin Subtrees(f)

(* ---------------------------------------------- the two parse functions *)
(* C23: the two parse entry points are interchangeable: for every text,   *)
(* pyprops.parse and pyprops_parser.parse_formula either both reject it   *)
(* or both return formulas with the same rendering.                       *)
C23_ParsersInterchangeable ==
  (res.op = "pyprops.parse") =>
    LET r == parse_formula(text, <<nobj>>)
    IN /\ res.err <=> r.err # ""
       /\ ~res.err => to_text(res.node) = to_text(r.node)

====
